---- MODULE Spec2Model ----
(***************************************************************************)
(* A model of the file server of main.go: FileServer.ServeHTTP and the     *)
(* two responders serveFile and serveDirectory, with the directory         *)
(* listing that generateDirectoryHTML renders.                             *)
(*                                                                         *)
(* A Go string is a sequence of one-character strings, so that             *)
(* strings.Contains, strings.Split, filepath.Join and filepath.Ext work on *)
(* characters as they do in the program.  The disk is a tree of nodes      *)
(* keyed by the sequence of their names from "/".                          *)
(***************************************************************************)
EXTENDS Integers, Sequences, FiniteSets, TLC

VARIABLES servePath, disk, scope, pc, req, via, resp, handle, logged

vars == <<servePath, disk, scope, pc, req, via, resp, handle, logged>>

(***************************************************************************)
(* Bounds of the model.                                                    *)
(***************************************************************************)
\* segments of a request path typed by a client, one connection
MaxSegs == 3
\* segments of a request path typed by a client, two connections
ConcSegs == 1

(***************************************************************************)
(* Characters and strings.                                                 *)
(***************************************************************************)
Upper == <<"A","B","C","D","E","F","G","H","I","J","K","L","M",
           "N","O","P","Q","R","S","T","U","V","W","X","Y","Z">>
Lower == <<"a","b","c","d","e","f","g","h","i","j","k","l","m",
           "n","o","p","q","r","s","t","u","v","w","x","y","z">>

\* the byte value of a character, as Go compares strings
Ord(ch) ==
    IF \E i \in 1..26 : Upper[i] = ch
    THEN 64 + (CHOOSE i \in 1..26 : Upper[i] = ch)
    ELSE IF \E i \in 1..26 : Lower[i] = ch
    THEN 96 + (CHOOSE i \in 1..26 : Lower[i] = ch)
    ELSE IF ch = "." THEN 46 ELSE IF ch = "/" THEN 47
    ELSE IF ch = " " THEN 32 ELSE IF ch = "%" THEN 37 ELSE 45

RECURSIVE StrLess(_, _)
\* a < b on Go strings: bytewise lexicographic
StrLess(a, b) ==
    IF b = <<>> THEN FALSE
    ELSE IF a = <<>> THEN TRUE
    ELSE IF Ord(Head(a)) # Ord(Head(b)) THEN Ord(Head(a)) < Ord(Head(b))
    ELSE StrLess(Tail(a), Tail(b))

HasPrefix(s, p) == Len(p) <= Len(s) /\ SubSeq(s, 1, Len(p)) = p

TrimPrefix(s, p) == IF HasPrefix(s, p) THEN SubSeq(s, Len(p) + 1, Len(s)) ELSE s

Contains(s, sub) ==
    \E i \in 1..(Len(s) - Len(sub) + 1) : SubSeq(s, i, i + Len(sub) - 1) = sub

RECURSIVE SplitFrom(_, _, _, _)
SplitFrom(s, sep, i, cur) ==
    IF i > Len(s) THEN <<cur>>
    ELSE IF s[i] = sep THEN <<cur>> \o SplitFrom(s, sep, i + 1, <<>>)
    ELSE SplitFrom(s, sep, i + 1, Append(cur, s[i]))

\* strings.Split(s, sep) for a one-character separator; Split("", "/") is [""]
Split(s, sep) == SplitFrom(s, sep, 1, <<>>)

RECURSIVE StringsJoin(_, _)
\* strings.Join(parts, sep)
StringsJoin(parts, sep) ==
    IF parts = <<>> THEN <<>>
    ELSE IF Len(parts) = 1 THEN parts[1]
    ELSE parts[1] \o <<sep>> \o StringsJoin(Tail(parts), sep)

ToLowerChar(ch) ==
    IF \E i \in 1..26 : Upper[i] = ch
    THEN Lower[CHOOSE i \in 1..26 : Upper[i] = ch]
    ELSE ch

\* strings.ToLower
ToLower(s) == [i \in 1..Len(s) |-> ToLowerChar(s[i])]

(***************************************************************************)
(* path/filepath on a Unix host.                                           *)
(***************************************************************************)
RECURSIVE CleanParts(_, _, _)
\* the components a rooted path keeps: "" and "." dropped, ".." pops one
\* (and is dropped at the root)
CleanParts(parts, i, out) ==
    IF i > Len(parts) THEN out
    ELSE IF parts[i] = <<>> \/ parts[i] = <<".">> THEN CleanParts(parts, i + 1, out)
    ELSE IF parts[i] = <<".", ".">>
    THEN CleanParts(parts, i + 1,
                    IF out = <<>> THEN out ELSE SubSeq(out, 1, Len(out) - 1))
    ELSE CleanParts(parts, i + 1, Append(out, parts[i]))

\* the key of a rooted path: its cleaned components
KeyOf(p) == CleanParts(Split(p, "/"), 1, <<>>)

\* filepath.Clean of a rooted path
Clean(p) == <<"/">> \o StringsJoin(KeyOf(p), "/")

\* filepath.Join(a, b): empty elements are ignored, the result is cleaned
Join(a, b) == IF b = <<>> THEN Clean(a) ELSE Clean(a \o <<"/">> \o b)

\* filepath.Abs of a path that is already absolute
Abs(p) == Clean(p)

\* filepath.Base of a cleaned rooted path
Base(p) == IF KeyOf(p) = <<>> THEN <<"/">> ELSE KeyOf(p)[Len(KeyOf(p))]

\* filepath.Ext: the suffix from the last "." of the name, "" if none
Ext(name) ==
    IF \E i \in 1..Len(name) : name[i] = "."
    THEN LET i == CHOOSE k \in 1..Len(name) :
                      name[k] = "." /\ \A j \in (k + 1)..Len(name) : name[j] # "."
         IN SubSeq(name, i, Len(name))
    ELSE <<>>

(***************************************************************************)
(* The request target on the wire and r.URL.Path.  net/http percent-       *)
(* decodes the target before the handler reads r.URL.Path; html/template   *)
(* percent-encodes what it writes into an href.                            *)
(***************************************************************************)
RECURSIVE Unescape(_)
\* url.Parse: %20, %2e/%2E and %2f/%2F are the escapes a client of the model sends
Unescape(s) ==
    IF s = <<>> THEN <<>>
    ELSE IF Len(s) >= 3 /\ s[1] = "%" /\ s[2] = "2" /\ s[3] \in {"0", "e", "E", "f", "F"}
    THEN <<(IF s[3] = "0" THEN " " ELSE IF s[3] \in {"e", "E"} THEN "." ELSE "/")>>
         \o Unescape(SubSeq(s, 4, Len(s)))
    ELSE <<Head(s)>> \o Unescape(Tail(s))

RECURSIVE HrefEscape(_)
\* html/template in an href: letters, "." and "/" are kept, a space becomes %20
HrefEscape(s) ==
    IF s = <<>> THEN <<>>
    ELSE (IF Head(s) = " " THEN <<"%", "2", "0">> ELSE <<Head(s)>>) \o HrefEscape(Tail(s))

(***************************************************************************)
(* The disk.  A node is a directory or a regular file; r is the read       *)
(* permission (open, readdir), x the search permission of a directory      *)
(* (lookup of its children), io whether fstat on the open file works.      *)
(***************************************************************************)
nS == <<"s">>
nSX == <<"s", "x">>
nD == <<"d">>
nE == <<"e">>
nF == <<"f", ".", "M", "D">>
nN == <<"n", ".", ".", "j", "s">>
nG == <<"g", " ", "h">>
nX == <<"x">>

Dir == [kind |-> "dir", size |-> 0, r |-> TRUE, x |-> TRUE, io |-> TRUE]

File(n) == [kind |-> "file", size |-> n, r |-> TRUE, x |-> FALSE, io |-> TRUE]

\* every entry readable
DiskOpen ==
    (<<>> :> Dir) @@ (<<nS>> :> Dir) @@ (<<nSX>> :> Dir) @@ (<<nSX, nF>> :> File(9))
    @@ (<<nS, nD>> :> Dir) @@ (<<nS, nD, nD>> :> File(0)) @@ (<<nS, nD, nE>> :> Dir)
    @@ (<<nS, nD, nF>> :> File(2))
    @@ (<<nS, nD, nE, nF>> :> File(7)) @@ (<<nS, nE>> :> Dir) @@ (<<nS, nE, nG>> :> File(3))
    @@ (<<nS, nF>> :> File(5)) @@ (<<nS, nN>> :> File(1))

\* the same tree with restricted entries: /s/e is mode 000, /s/d/e is
\* readable but not searchable, /s/f.MD is unreadable, fstat of /s/d/d fails
DiskLocked ==
    [k \in DOMAIN DiskOpen |->
        IF k = <<nS, nE>> THEN [DiskOpen[k] EXCEPT !.r = FALSE, !.x = FALSE]
        ELSE IF k = <<nS, nD, nE>> THEN [DiskOpen[k] EXCEPT !.x = FALSE]
        ELSE IF k = <<nS, nF>> THEN [DiskOpen[k] EXCEPT !.r = FALSE]
        ELSE IF k = <<nS, nD, nD>> THEN [DiskOpen[k] EXCEPT !.io = FALSE]
        ELSE DiskOpen[k]]

Disks == {DiskOpen, DiskLocked}

RECURSIVE Walk(_, _, _)
\* the kernel's lookup of key on disk d, component by component
Walk(d, key, i) ==
    IF i > Len(key) THEN "ok"
    ELSE IF d[SubSeq(key, 1, i - 1)].kind # "dir" THEN "ENOTDIR"
    ELSE IF ~d[SubSeq(key, 1, i - 1)].x THEN "EACCES"
    ELSE IF SubSeq(key, 1, i) \notin DOMAIN d THEN "ENOENT"
    ELSE Walk(d, key, i + 1)

\* os.Stat(p): the error, or the FileInfo
Stat(d, p) ==
    LET e == Walk(d, KeyOf(p), 1)
    IN  IF e = "ok"
        THEN [err |-> "nil", isDir |-> d[KeyOf(p)].kind = "dir", size |-> d[KeyOf(p)].size]
        ELSE [err |-> e, isDir |-> FALSE, size |-> 0]

\* os.IsNotExist(err)
IsNotExist(err) == err = "ENOENT"

RECURSIVE SortNames(_)
SortNames(S) ==
    IF S = {} THEN <<>>
    ELSE LET m == CHOOSE n \in S : \A o \in S : o = n \/ StrLess(n, o)
         IN  <<m>> \o SortNames(S \ {m})

\* os.ReadDir(dir): the names of the entries, sorted by filename
ReadDir(d, key) ==
    SortNames({k[Len(k)] : k \in {j \in DOMAIN d :
                   Len(j) = Len(key) + 1 /\ SubSeq(j, 1, Len(key)) = key}})

(***************************************************************************)
(* Responses.  resp[c] is what the handler of connection c hands to the    *)
(* transport: status 0 means nothing was written.                          *)
(***************************************************************************)
NoBody ==
    [kind |-> "none", text |-> "", path |-> <<>>, hasParent |-> FALSE,
     parent |-> <<>>, rows |-> <<>>, of |-> <<>>, len |-> 0]

NoResp == [status |-> 0, ctype |-> "", clen |-> -1, disp |-> <<>>, body |-> NoBody]

\* http.Error(w, msg, code): a plain-text body and the status
httpError(msg, code) ==
    [status |-> code, ctype |-> "text/plain; charset=utf-8", clen |-> -1,
     disp |-> <<>>, body |-> [NoBody EXCEPT !.kind = "text", !.text = msg]]

(***************************************************************************)
(* getMimeType                                                             *)
(***************************************************************************)
\* the switch of getMimeType on the extension
MimeOf(ext) ==
    IF ext \in {<<".", "h", "t", "m", "l">>, <<".", "h", "t", "m">>} THEN "text/html"
    ELSE IF ext = <<".", "c", "s", "s">> THEN "text/css"
    ELSE IF ext = <<".", "j", "s">> THEN "application/javascript"
    ELSE IF ext = <<".", "j", "s", "o", "n">> THEN "application/json"
    ELSE IF ext = <<".", "p", "n", "g">> THEN "image/png"
    ELSE IF ext \in {<<".", "j", "p", "g">>, <<".", "j", "p", "e", "g">>} THEN "image/jpeg"
    ELSE IF ext = <<".", "g", "i", "f">> THEN "image/gif"
    ELSE IF ext = <<".", "s", "v", "g">> THEN "image/svg+xml"
    ELSE IF ext = <<".", "p", "d", "f">> THEN "application/pdf"
    ELSE IF ext = <<".", "t", "x", "t">> THEN "text/plain"
    ELSE IF ext = <<".", "m", "d">> THEN "text/markdown"
    ELSE "application/octet-stream"

\* a lookup that has lost its strings.ToLower
getMimeTypeCaseSensitive(filename) == MimeOf(Ext(filename))

getMimeType(filename) == MimeOf(ToLower(Ext(filename)))

(***************************************************************************)
(* ServeHTTP: the checks before the dispatch.                              *)
(***************************************************************************)
\* r.URL.Path of a request target
URLPath(u) == Unescape(u)

\* path := strings.TrimPrefix(r.URL.Path, "/")
PathOf(u) == TrimPrefix(URLPath(u), <<"/">>)

\* a check that refuses "../" only, as the README words it
TraversalCheckDotDotSlash(path) ==
    Contains(path, <<".", ".", "/">>) \/ HasPrefix(path, <<"/">>)

\* a check that has lost its test for ".."
TraversalCheckLeadingSlashOnly(path) == HasPrefix(path, <<"/">>)

\* the security check of ServeHTTP: true when the request is refused
TraversalCheck(path) == Contains(path, <<".", ".">>) \/ HasPrefix(path, <<"/">>)

\* absPath of a request: filepath.Abs(filepath.Join(fs.servePath, path))
AbsPath(sp, u) == Abs(Join(sp, PathOf(u)))

\* the second security check: strings.HasPrefix(absPath, serveAbsPath)
WithinServeDir(absPath, serveAbsPath) == HasPrefix(absPath, serveAbsPath)

\* what ServeHTTP does with the result of os.Stat: "404" when the error is
\* IsNotExist; otherwise it calls info.IsDir(), and info is nil when the
\* stat failed with any other error
AfterStat(st) ==
    IF IsNotExist(st.err) THEN "404"
    ELSE IF st.err # "nil" THEN "panic"
    ELSE IF st.isDir THEN "dir"
    ELSE "file"

\* a handler that keeps the joined path in fs.servePath
ServePathStored(sp, fullPath) == fullPath

\* fs.servePath after a request: ServeHTTP and the responders only read it
ServePathAfter(sp, fullPath) == sp

(***************************************************************************)
(* serveDirectory                                                          *)
(***************************************************************************)
\* fileInfo.URL of a child
BuildURL(urlPath, name, isDir) ==
    (IF urlPath # <<>> THEN <<"/">> \o urlPath \o <<"/">> \o name ELSE <<"/">> \o name)
    \o (IF isDir THEN <<"/">> ELSE <<>>)

RECURSIVE Entries(_, _, _, _, _)
\* the loop over the entries: an entry whose Info() fails is skipped
Entries(d, key, urlPath, names, i) ==
    IF i > Len(names) THEN <<>>
    ELSE LET k == Append(key, names[i])
             row == [Name |-> names[i], IsDir |-> d[k].kind = "dir", Size |-> d[k].size,
                     URL |-> BuildURL(urlPath, names[i], d[k].kind = "dir")]
         IN  (IF d[key].x THEN <<row>> ELSE <<>>) \o Entries(d, key, urlPath, names, i + 1)

\* a less function that compares the names only
LessByName(a, b) == StrLess(a.Name, b.Name)

\* the less function given to sort.Slice
Less(a, b) == IF a.IsDir # b.IsDir THEN a.IsDir ELSE StrLess(a.Name, b.Name)

RECURSIVE Insert(_, _)
Insert(f, s) ==
    IF s = <<>> THEN <<f>>
    ELSE IF Less(f, s[1]) THEN <<f>> \o s
    ELSE <<s[1]>> \o Insert(f, Tail(s))

RECURSIVE SortSlice(_)
\* sort.Slice(files, less)
SortSlice(s) == IF s = <<>> THEN <<>> ELSE Insert(Head(s), SortSlice(Tail(s)))

\* the template function dirname
dirname(path) ==
    LET parts == Split(path, "/")
    IN  IF Len(parts) <= 1 THEN <<>>
        ELSE StringsJoin(SubSeq(parts, 1, Len(parts) - 1), "/")

\* the href of the parent row:
\* {{if eq (len (split .Path "/")) 1}}/{{else}}{{.Path | dirname}}/{{end}}
ParentHref(path) ==
    IF Len(Split(path, "/")) = 1 THEN <<"/">> ELSE HrefEscape(dirname(path)) \o <<"/">>

\* the page: the parent row when .Path is not empty, then one row per file
generateDirectoryHTML(listing, key) ==
    [kind |-> "html", text |-> "", path |-> listing.Path,
     hasParent |-> listing.Path # <<>>,
     parent |-> IF listing.Path # <<>> THEN ParentHref(listing.Path) ELSE <<>>,
     rows |-> [i \in 1..Len(listing.Files) |->
                  [Name |-> listing.Files[i].Name, IsDir |-> listing.Files[i].IsDir,
                   Size |-> listing.Files[i].Size, URL |-> listing.Files[i].URL,
                   Href |-> HrefEscape(listing.Files[i].URL)]],
     of |-> key, len |-> 0]

\* the response of serveDirectory(w, r, dirPath, urlPath)
DirectoryResponse(d, dirPath, urlPath) ==
    IF ~d[KeyOf(dirPath)].r
    THEN httpError("Error reading directory", 500)
    ELSE LET files == SortSlice(Entries(d, KeyOf(dirPath), urlPath,
                                        ReadDir(d, KeyOf(dirPath)), 1))
             listing == [Path |-> urlPath, Files |-> files]
         IN  [status |-> 200, ctype |-> "text/html; charset=utf-8", clen |-> -1,
              disp |-> <<>>, body |-> generateDirectoryHTML(listing, KeyOf(dirPath))]

(***************************************************************************)
(* serveFile                                                               *)
(***************************************************************************)
\* the headers serveFile sets once the file is open and statted
FileHeaders(d, filePath) ==
    [status |-> 0, ctype |-> getMimeType(Base(filePath)), clen |-> d[KeyOf(filePath)].size,
     disp |-> Base(filePath), body |-> NoBody]

\* a Close placed after the copy instead of deferred: the error returns skip it
HandleLeakOnError(open, how) == open /\ how # "copied"

\* defer file.Close(): whether the handle is still open once serveFile has
\* returned the way `how` names ("statfail", "copied", "writefail")
HandleAfterReturn(open, how) == FALSE

(***************************************************************************)
(* The clients.  A client types a request target made of at most a bounded *)
(* number of segments, or follows a link of a listing it received.         *)
(***************************************************************************)
Conns == {1, 2}

\* the segments a client types: empty (a doubled or trailing "/"), ".", "..",
\* its percent-encoded form, the names on the disk and a name that is not
Vocab ==
    {<<>>, <<".">>, <<".", ".">>, <<"%", "2", "e", "%", "2", "e">>,
     nD, nE, nF, nN, nX, nSX}

\* the segments typed when two connections are served
VocabTwo == {<<>>, <<".", ".">>, nD, nE, nF, nN, nX}

SegSeqs(n, V) == UNION {[1..k -> V] : k \in 0..n}

Typed(n, V) == {<<"/">> \o StringsJoin(ss, "/") : ss \in SegSeqs(n, V)}

TypedOne == Typed(MaxSegs, Vocab)

TypedTwo == Typed(ConcSegs, VocabTwo)

\* the connections the transport serves, and what their clients type
Active == IF scope = "one" THEN {1} ELSE Conns

Targets == IF scope = "one" THEN TypedOne ELSE TypedTwo

NoVia == [on |-> FALSE, key |-> <<>>, isDir |-> FALSE]

Finished(c) == pc[c] \in {"done", "panic"}

Init ==
    /\ servePath = <<"/", "s">>
    /\ disk \in Disks
    /\ scope = "one"
    /\ pc = [c \in Conns |-> "idle"]
    /\ req = [c \in Conns |-> <<>>]
    /\ via = [c \in Conns |-> NoVia]
    /\ resp = [c \in Conns |-> NoResp]
    /\ handle = [c \in Conns |-> FALSE]
    /\ logged = [c \in Conns |-> FALSE]

InitConc ==
    /\ servePath = <<"/", "s">>
    /\ disk \in Disks
    /\ scope = "two"
    /\ pc = [c \in Conns |-> "idle"]
    /\ req = [c \in Conns |-> <<>>]
    /\ via = [c \in Conns |-> NoVia]
    /\ resp = [c \in Conns |-> NoResp]
    /\ handle = [c \in Conns |-> FALSE]
    /\ logged = [c \in Conns |-> FALSE]

\* the transport hands a request with target u, by link or typed, to a handler
Start(c, u, v) ==
    /\ pc' = [pc EXCEPT ![c] = "serve"]
    /\ req' = [req EXCEPT ![c] = u]
    /\ via' = [via EXCEPT ![c] = v]
    /\ resp' = [resp EXCEPT ![c] = NoResp]
    /\ logged' = [logged EXCEPT ![c] = FALSE]
    /\ UNCHANGED <<servePath, disk, scope, handle>>

Request(c, u) ==
    /\ pc[c] = "idle"
    /\ Start(c, u, NoVia)

\* the exchange is over: the client has its response, or the transport has
\* closed the connection of a handler that panicked
Release(c) ==
    /\ Finished(c)
    /\ pc' = [pc EXCEPT ![c] = "idle"]
    /\ req' = [req EXCEPT ![c] = <<>>]
    /\ via' = [via EXCEPT ![c] = NoVia]
    /\ resp' = [resp EXCEPT ![c] = NoResp]
    /\ logged' = [logged EXCEPT ![c] = FALSE]
    /\ UNCHANGED <<servePath, disk, scope, handle>>

\* the client follows the link of row i of the listing it holds
Follow(c, i) ==
    /\ pc[c] = "done"
    /\ resp[c].status = 200
    /\ resp[c].body.kind = "html"
    /\ i \in 1..Len(resp[c].body.rows)
    /\ Start(c, resp[c].body.rows[i].Href,
             [on |-> TRUE, key |-> Append(resp[c].body.of, resp[c].body.rows[i].Name),
              isDir |-> resp[c].body.rows[i].IsDir])

(***************************************************************************)
(* The handler.                                                            *)
(***************************************************************************)
Finish(c, r) ==
    /\ pc' = [pc EXCEPT ![c] = "done"]
    /\ resp' = [resp EXCEPT ![c] = r]

\* ServeHTTP up to the dispatch to serveDirectory or serveFile
ServeHTTP(c) ==
    /\ pc[c] = "serve"
    /\ LET path == PathOf(req[c])
           absPath == AbsPath(servePath, req[c])
           next == AfterStat(Stat(disk, absPath))
       IN  /\ IF TraversalCheck(path)
              THEN Finish(c, httpError("Forbidden: Directory traversal not allowed", 403))
              ELSE IF ~WithinServeDir(absPath, Abs(servePath))
              THEN Finish(c, httpError("Forbidden: Path outside serve directory", 403))
              ELSE IF next = "404"
              THEN Finish(c, httpError("Not Found", 404))
              ELSE /\ pc' = [pc EXCEPT ![c] = next]
                   /\ UNCHANGED resp
           /\ servePath' = ServePathAfter(servePath, Join(servePath, path))
    /\ UNCHANGED <<disk, scope, req, via, handle, logged>>

serveDirectory(c) ==
    /\ pc[c] = "dir"
    /\ Finish(c, DirectoryResponse(disk, AbsPath(servePath, req[c]), PathOf(req[c])))
    /\ UNCHANGED <<servePath, disk, scope, req, via, handle, logged>>

\* serveFile: os.Open
serveFileOpen(c) ==
    /\ pc[c] = "file"
    /\ IF disk[KeyOf(AbsPath(servePath, req[c]))].r
       THEN /\ pc' = [pc EXCEPT ![c] = "stat"]
            /\ handle' = [handle EXCEPT ![c] = TRUE]
            /\ UNCHANGED resp
       ELSE /\ Finish(c, httpError("Error reading file", 500))
            /\ UNCHANGED handle
    /\ UNCHANGED <<servePath, disk, scope, req, via, logged>>

\* serveFile: file.Stat and the headers
serveFileStat(c) ==
    /\ pc[c] = "stat"
    /\ IF disk[KeyOf(AbsPath(servePath, req[c]))].io
       THEN /\ pc' = [pc EXCEPT ![c] = "copy"]
            /\ resp' = [resp EXCEPT ![c] = FileHeaders(disk, AbsPath(servePath, req[c]))]
            /\ UNCHANGED handle
       ELSE /\ Finish(c, httpError("Error reading file", 500))
            /\ handle' = [handle EXCEPT ![c] = HandleAfterReturn(handle[c], "statfail")]
    /\ UNCHANGED <<servePath, disk, scope, req, via, logged>>

\* serveFile: io.Copy; a write that fails is logged and the status stays
serveFileCopy(c, ok) ==
    /\ pc[c] = "copy"
    /\ Finish(c, [resp[c] EXCEPT !.status = 200,
                    !.body = [NoBody EXCEPT !.kind = "bytes",
                                !.of = KeyOf(AbsPath(servePath, req[c])),
                                !.len = disk[KeyOf(AbsPath(servePath, req[c]))].size]])
    /\ logged' = [logged EXCEPT ![c] = ~ok]
    /\ handle' = [handle EXCEPT ![c] =
                     HandleAfterReturn(handle[c], IF ok THEN "copied" ELSE "writefail")]
    /\ UNCHANGED <<servePath, disk, scope, req, via>>

Next ==
    \/ \E c \in Active : pc[c] = "idle" /\ \E u \in Targets : Request(c, u)
    \/ \E c \in Active : \E i \in 1..Len(resp[c].body.rows) : Follow(c, i)
    \/ \E c \in Active : Release(c)
    \/ \E c \in Active : ServeHTTP(c)
    \/ \E c \in Active : serveDirectory(c)
    \/ \E c \in Active : serveFileOpen(c)
    \/ \E c \in Active : serveFileStat(c)
    \/ \E c \in Active, ok \in BOOLEAN : serveFileCopy(c, ok)

\* one connection, request targets of up to MaxSegs typed segments
Spec == Init /\ [][Next]_vars

\* two connections served concurrently, targets of up to ConcSegs segments
SpecConc == InitConc /\ [][Next]_vars

(***************************************************************************)
(* What the properties speak of.                                           *)
(***************************************************************************)
\* the request path with one leading "/" removed
Stripped(c) ==
    IF URLPath(req[c]) # <<>> /\ URLPath(req[c])[1] = "/"
    THEN Tail(URLPath(req[c])) ELSE URLPath(req[c])

HasDotDot(p) == \E i \in 1..(Len(p) - 1) : p[i] = "." /\ p[i + 1] = "."

LeadingSlash(p) == p # <<>> /\ p[1] = "/"

PassesTraversal(c) == ~HasDotDot(Stripped(c)) /\ ~LeadingSlash(Stripped(c))

RootKey == KeyOf(servePath)

\* the entry a request resolves to
TargetKey(c) == KeyOf(servePath \o <<"/">> \o Stripped(c))

UnderRoot(k) == Len(k) >= Len(RootKey) /\ SubSeq(k, 1, Len(RootKey)) = RootKey

Exists(k) == Walk(disk, k, 1) = "ok"

Children(k) == {j \in DOMAIN disk : Len(j) = Len(k) + 1 /\ SubSeq(j, 1, Len(k)) = k}

RowNames(rows) == {rows[i].Name : i \in 1..Len(rows)}

\* C1: a request path that, one leading "/" stripped, contains ".." or
\* still begins with "/" is answered 403, whatever is on the disk
C1_TraversalForbidden ==
    \A c \in Conns :
        Finished(c) /\ (HasDotDot(Stripped(c)) \/ LeadingSlash(Stripped(c)))
            => pc[c] = "done" /\ resp[c].status = 403

\* a refused request for an entry that exists under the serve root
C1_Witness ==
    \E c \in Conns :
        /\ Finished(c) /\ HasDotDot(Stripped(c))
        /\ TargetKey(c) = <<nS, nN>> /\ Exists(TargetKey(c))
        /\ resp[c].status = 403

\* C2: a request whose resolved path is not the serve root nor below it is
\* answered 403, and no 200 serves an entry outside the tree of the root
C2_OutsideForbidden ==
    \A c \in Conns :
        Finished(c) =>
            /\ ~UnderRoot(TargetKey(c)) => pc[c] = "done" /\ resp[c].status = 403
            /\ resp[c].status = 200 => UnderRoot(resp[c].body.of)

\* a request resolving to /sx/f.MD, beside the root /s, answered 403
C2_Witness ==
    \E c \in Conns :
        /\ Finished(c) /\ TargetKey(c) = <<nSX, nF>> /\ Exists(TargetKey(c))
        /\ HasPrefix(Clean(servePath \o <<"/">> \o Stripped(c)), servePath)
        /\ resp[c].status = 403

\* C3: every request ends with a status and a readable body, and a stat
\* that fails with an error other than "not found" is answered 500
C3_StatErrorIs500 ==
    \A c \in Conns :
        Finished(c) =>
            /\ resp[c].status \in {200, 403, 404, 500}
            /\ resp[c].body.kind # "none"
            /\ (PassesTraversal(c) /\ Walk(disk, TargetKey(c), 1) \notin {"ok", "ENOENT"})
                   => resp[c].status = 500 /\ resp[c].body.kind = "text"

\* the MIME table of the documentation, extension in lower case
MimeTable ==
    {<<<<".", "h", "t", "m", "l">>, "text/html">>, <<<<".", "h", "t", "m">>, "text/html">>,
     <<<<".", "c", "s", "s">>, "text/css">>, <<<<".", "j", "s">>, "application/javascript">>,
     <<<<".", "j", "s", "o", "n">>, "application/json">>, <<<<".", "p", "n", "g">>, "image/png">>,
     <<<<".", "j", "p", "g">>, "image/jpeg">>, <<<<".", "j", "p", "e", "g">>, "image/jpeg">>,
     <<<<".", "g", "i", "f">>, "image/gif">>, <<<<".", "s", "v", "g">>, "image/svg+xml">>,
     <<<<".", "p", "d", "f">>, "application/pdf">>, <<<<".", "t", "x", "t">>, "text/plain">>,
     <<<<".", "m", "d">>, "text/markdown">>}

EqualFold(a, b) ==
    Len(a) = Len(b) /\ \A i \in 1..Len(a) : ToLowerChar(a[i]) = ToLowerChar(b[i])

TableType(name) ==
    IF \E e \in MimeTable : EqualFold(e[1], Ext(name))
    THEN (CHOOSE e \in MimeTable : EqualFold(e[1], Ext(name)))[2]
    ELSE "application/octet-stream"

IsFileRequest(c) ==
    /\ Finished(c) /\ PassesTraversal(c)
    /\ Exists(TargetKey(c)) /\ disk[TargetKey(c)].kind = "file"

FileServed(c) ==
    /\ resp[c].status = 200
    /\ resp[c].clen = disk[TargetKey(c)].size
    /\ resp[c].body.kind = "bytes" /\ resp[c].body.len = disk[TargetKey(c)].size
    /\ resp[c].ctype = TableType(TargetKey(c)[Len(TargetKey(c))])

IsDirRequest(c) ==
    /\ Finished(c) /\ PassesTraversal(c)
    /\ Exists(TargetKey(c)) /\ disk[TargetKey(c)].kind = "dir"

Ordered(rows) ==
    \A i, j \in 1..Len(rows) :
        i < j => \/ rows[i].IsDir /\ ~rows[j].IsDir
                 \/ rows[i].IsDir = rows[j].IsDir /\ StrLess(rows[i].Name, rows[j].Name)

\* a 200 listing whose rows are the entries of the set kids, each once, with
\* its kind, directories first and names ascending within each group
Lists(c, kids) ==
    /\ resp[c].status = 200 /\ resp[c].body.kind = "html"
    /\ Len(resp[c].body.rows) = Cardinality(kids)
    /\ RowNames(resp[c].body.rows) = {k[Len(k)] : k \in kids}
    /\ \A i \in 1..Len(resp[c].body.rows) :
           resp[c].body.rows[i].IsDir
               = (disk[Append(TargetKey(c), resp[c].body.rows[i].Name)].kind = "dir")
    /\ Ordered(resp[c].body.rows)

ParentURL(k) ==
    <<"/">> \o StringsJoin(SubSeq(k, Len(RootKey) + 1, Len(k) - 1), "/")

\* C6: the listing of the root, asked by the empty path, has no parent row;
\* the listing of any other directory has one, whose link is the
\* root-relative URL of the parent of the listed directory
C6_ParentRow ==
    \A c \in Conns :
        IsDirRequest(c) /\ resp[c].status = 200 =>
            /\ Stripped(c) = <<>> => ~resp[c].body.hasParent
            /\ TargetKey(c) # RootKey =>
                   /\ resp[c].body.hasParent
                   /\ resp[c].body.parent \in
                          {ParentURL(TargetKey(c))} \cup
                          (IF Len(TargetKey(c)) > Len(RootKey) + 1
                           THEN {ParentURL(TargetKey(c)) \o <<"/">>} ELSE {})

\* C7: a request that passes the traversal check and names no entry of an
\* existing directory of the root is answered 404 with a text body
C7_MissingIs404 ==
    \A c \in Conns :
        /\ Finished(c) /\ PassesTraversal(c)
        /\ Len(TargetKey(c)) > Len(RootKey)
        /\ SubSeq(TargetKey(c), 1, Len(TargetKey(c)) - 1) \in DOMAIN disk
        /\ disk[SubSeq(TargetKey(c), 1, Len(TargetKey(c)) - 1)].kind = "dir"
        /\ TargetKey(c) \notin DOMAIN disk
        => pc[c] = "done" /\ resp[c].status = 404 /\ resp[c].body.kind = "text"

C9_HandlesReleased == \A c \in Conns : handle[c] => pc[c] \in {"stat", "copy"}

\* one serveFile returned after a failed stat of the open file, another
\* after a failed write, and both handles are closed
C9_Witness ==
    /\ pc[1] = "done" /\ resp[1].status = 500 /\ disk[TargetKey(1)].kind = "file"
    /\ disk[TargetKey(1)].r /\ ~disk[TargetKey(1)].io
    /\ pc[2] = "done" /\ resp[2].status = 200 /\ logged[2]
    /\ ~handle[1] /\ ~handle[2]

\* C10: the link of every row of a listing, followed with the disk
\* unchanged, is answered 200 and serves that child: its bytes for a file,
\* its listing for a directory (stated for the children the server may read)
C10_LinksRoundTrip ==
    \A c \in Conns :
        Finished(c) /\ via[c].on /\ Exists(via[c].key)
        /\ disk[via[c].key].r /\ disk[via[c].key].io
        /\ (disk[via[c].key].kind = "dir" => disk[via[c].key].x)
        => /\ resp[c].status = 200
           /\ resp[c].body.of = via[c].key
           /\ resp[c].body.kind = IF via[c].isDir THEN "html" ELSE "bytes"

====
